---- MODULE Spec2Model ----
(***************************************************************************)
(* Model of the DreamBerd interpreter of src/src/index.ts: the Tokenizer   *)
(* (character stream -> tokens grouped into lines split on '!') and the    *)
(* line interpreter (variable table + print).                              *)
(*                                                                         *)
(* A JavaScript string is a sequence of one-character strings, so that     *)
(* slicing, comparison with the keywords and character classification are  *)
(* computed as the code computes them.                                     *)
(***************************************************************************)
EXTENDS Integers, Sequences, FiniteSets, TLC

VARIABLES input, lexer, pc, error, dumped, index, variables, out, effects

vars == <<input, lexer, pc, error, dumped, index, variables, out, effects>>

(***************************************************************************)
(* Bounds and the scripts the model is run on.                             *)
(***************************************************************************)
\* number of script fragments concatenated into one input
MaxSegs == 3

\* the character U+0000, which readChar also uses as its end-of-input mark
NUL == "NUL"

\* the JavaScript value undefined: where an object is expected, and where a
\* string is expected (the literal read from an object that has none, which
\* the variable table accepts as a key like any other value)
undefined == [undefined |-> TRUE]
undefinedLiteral == <<"undefined">>

Segments ==
    <<
      \* var x = 07!
      <<"v", "a", "r", " ", "x", " ", "=", " ", "0", "7", "!">>,
      \* var x = 'hi'!
      <<"v", "a", "r", " ", "x", " ", "=", " ", "'", "h", "i", "'", "!">>,
      \* print(x)!
      <<"p", "r", "i", "n", "t", "(", "x", ")", "!">>,
      \* print('a')!
      <<"p", "r", "i", "n", "t", "(", "'", "a", "'", ")", "!">>,
      \* var valueOf = 1!
      <<"v", "a", "r", " ", "v", "a", "l", "u", "e", "O", "f", " ", "=", " ", "1", "!">>,
      \* print(valueOf)!
      <<"p", "r", "i", "n", "t", "(", "v", "a", "l", "u", "e", "O", "f", ")", "!">>,
      \* var x = 'var'!
      <<"v", "a", "r", " ", "x", " ", "=", " ", "'", "v", "a", "r", "'", "!">>,
      \* var ( = 1!
      <<"v", "a", "r", " ", "(", " ", "=", " ", "1", "!">>,
      \* @
      <<"@">>,
      \* the character U+0000
      <<NUL>>,
      \* print(x)        (no terminator)
      <<"p", "r", "i", "n", "t", "(", "x", ")">>,
      \* var x = 3       (no terminator)
      <<"v", "a", "r", " ", "x", " ", "=", " ", "3">>,
      \* '
      <<"'">>,
      \* 12
      <<"1", "2">>,
      \* !
      <<"!">>,
      \* <tab>var y = "12"!<cr><lf>
      <<"\t", "v", "a", "r", " ", "y", " ", "=", " ", "\"", "1", "2", "\"", "!", "\r", "\n">>
    >>

RECURSIVE Scripts(_)
Scripts(n) ==
    IF n = 0 THEN { <<>> }
    ELSE LET prev == Scripts(n - 1)
         IN  prev \cup { s \o Segments[i] : s \in prev, i \in DOMAIN Segments }

Inputs == Scripts(MaxSegs)

(***************************************************************************)
(* Tokens.                                                                 *)
(***************************************************************************)
TokenType ==
    [ Illegal |-> "ILLEGAL", Eof |-> "EOF", Ident |-> "IDENT",
      PrintKeyword |-> "PRINT",  \* TokenType.Print in the source
      ParentesesE |-> "(", ParentesesD |-> ")", EoL |-> "!",
      SingleQuote |-> "'", DoubleQuote |-> "\"", Variable |-> "VAR",
      AssignOrEqual |-> "=", Int |-> "INT" ]

createToken(type, literal) == [type |-> type, literal |-> literal]

str_print == <<"p", "r", "i", "n", "t">>
str_var == <<"v", "a", "r">>
str_Illegal == <<"I", "l", "l", "e", "g", "a", "l">>
str_eof == <<"e", "o", "f">>
str_NaN == <<"N", "a", "N">>
str_Infinity == <<"I", "n", "f", "i", "n", "i", "t", "y">>

\* the letter-only property names every object literal inherits from
\* Object.prototype; Keywords[ident] finds them as well as its own two keys
ObjectPrototypeKeys ==
    { <<"c", "o", "n", "s", "t", "r", "u", "c", "t", "o", "r">>,
      <<"t", "o", "S", "t", "r", "i", "n", "g">>,
      <<"t", "o", "L", "o", "c", "a", "l", "e", "S", "t", "r", "i", "n", "g">>,
      <<"v", "a", "l", "u", "e", "O", "f">>,
      <<"h", "a", "s", "O", "w", "n", "P", "r", "o", "p", "e", "r", "t", "y">>,
      <<"i", "s", "P", "r", "o", "t", "o", "t", "y", "p", "e", "O", "f">>,
      <<"p", "r", "o", "p", "e", "r", "t", "y", "I", "s", "E", "n", "u", "m", "e", "r", "a", "b", "l", "e">>,
      <<"_", "_", "p", "r", "o", "t", "o", "_", "_">>,
      <<"_", "_", "d", "e", "f", "i", "n", "e", "G", "e", "t", "t", "e", "r", "_", "_">>,
      <<"_", "_", "d", "e", "f", "i", "n", "e", "S", "e", "t", "t", "e", "r", "_", "_">>,
      <<"_", "_", "l", "o", "o", "k", "u", "p", "G", "e", "t", "t", "e", "r", "_", "_">>,
      <<"_", "_", "l", "o", "o", "k", "u", "p", "S", "e", "t", "t", "e", "r", "_", "_">> }

\* the object Object.prototype[ident]: not a token, it has neither a type
\* nor a literal property
InheritedObject(ident) == [inherited |-> ident]

\* Keywords[ident]: an own key, an inherited property, or undefined
Keywords(ident) ==
    IF ident = str_print THEN createToken(TokenType.PrintKeyword, str_print)
    ELSE IF ident = str_var THEN createToken(TokenType.Variable, str_var)
    ELSE IF ident \in ObjectPrototypeKeys THEN InheritedObject(ident)
    ELSE undefined

\* the property reads t.type and t.literal
typeOf(t) == IF "type" \in DOMAIN t THEN t.type ELSE "undefined"
literalOf(t) == IF "literal" \in DOMAIN t THEN t.literal ELSE undefinedLiteral

(***************************************************************************)
(* Character classes.                                                      *)
(***************************************************************************)
LowerCase == {"a", "b", "c", "d", "e", "f", "g", "h", "i", "j", "k", "l", "m",
              "n", "o", "p", "q", "r", "s", "t", "u", "v", "w", "x", "y", "z"}
UpperCase == {"A", "B", "C", "D", "E", "F", "G", "H", "I", "J", "K", "L", "M",
              "N", "O", "P", "Q", "R", "S", "T", "U", "V", "W", "X", "Y", "Z"}
DigitChars == <<"0", "1", "2", "3", "4", "5", "6", "7", "8", "9">>

isLetter(character) ==
    character \in LowerCase \/ character \in UpperCase \/ character = "_"

isNumber(character) == \E i \in DOMAIN DigitChars : DigitChars[i] = character

(***************************************************************************)
(* Tokenizer: the cursor is the record [position, readPosition, ch].       *)
(***************************************************************************)
readChar(inp, c) ==
    [ ch |-> IF c.readPosition >= Len(inp) THEN NUL ELSE inp[c.readPosition + 1],
      position |-> c.readPosition,
      readPosition |-> c.readPosition + 1 ]

RECURSIVE skipWhitespace(_, _)
skipWhitespace(inp, c) ==
    IF c.ch = " " \/ c.ch = "\t" \/ c.ch = "\n" \/ c.ch = "\r"
    THEN skipWhitespace(inp, readChar(inp, c))
    ELSE c

\* input.slice(from, to) with 0 <= from
slice(inp, from, to) ==
    SubSeq(inp, from + 1, IF to > Len(inp) THEN Len(inp) ELSE to)

RECURSIVE readIdentLoop(_, _)
readIdentLoop(inp, c) ==
    IF isLetter(c.ch) THEN readIdentLoop(inp, readChar(inp, c)) ELSE c

readIdent(inp, c) ==
    LET e == readIdentLoop(inp, c)
    IN  [cur |-> e, text |-> slice(inp, c.position, e.position)]

RECURSIVE readIntLoop(_, _)
readIntLoop(inp, c) ==
    IF isNumber(c.ch) THEN readIntLoop(inp, readChar(inp, c)) ELSE c

readInt(inp, c) ==
    LET e == readIntLoop(inp, c)
    IN  [cur |-> e, text |-> slice(inp, c.position, e.position)]

\* the switch of getNextToken: the single-character token, or undefined
punctuation(ch) ==
    IF ch = "(" THEN createToken(TokenType.ParentesesE, <<ch>>)
    ELSE IF ch = ")" THEN createToken(TokenType.ParentesesD, <<ch>>)
    ELSE IF ch = "!" THEN createToken(TokenType.EoL, <<"!">>)
    ELSE IF ch = "'" THEN createToken(TokenType.SingleQuote, <<"'">>)
    ELSE IF ch = "\"" THEN createToken(TokenType.DoubleQuote, <<"\"">>)
    ELSE IF ch = "=" THEN createToken(TokenType.AssignOrEqual, <<"=">>)
    ELSE IF ch = NUL THEN createToken(TokenType.Eof, str_eof)
    ELSE undefined

\* the lookback, had it looked for the single quote only
afterQuote_singleOnly(lastToken) ==
    typeOf(lastToken) = TokenType.SingleQuote

\* the quote lookback of the number branch
afterQuote(lastToken) ==
    \/ typeOf(lastToken) = TokenType.SingleQuote
    \/ typeOf(lastToken) = TokenType.DoubleQuote

\* getNextToken, had it not consumed the character of a '=' token
getNextToken_assignNotConsumed(inp, cur, lastToken) ==
    LET c == skipWhitespace(inp, cur)
        tok == punctuation(c.ch)
    IN  IF isLetter(c.ch)
        THEN LET r == readIdent(inp, c)
                 keyword == Keywords(r.text)
                 t == IF keyword # undefined THEN keyword
                      ELSE createToken(TokenType.Ident, r.text)
             IN  [tok |-> t, cur |-> r.cur, lastToken |-> t]
        ELSE IF isNumber(c.ch)
        THEN LET r == readInt(inp, c)
                 t == createToken(IF afterQuote(lastToken) THEN TokenType.Ident
                                  ELSE TokenType.Int, r.text)
             IN  [tok |-> t, cur |-> r.cur, lastToken |-> t]
        ELSE IF tok = undefined
        THEN [tok |-> createToken(TokenType.Illegal, <<c.ch>>), cur |-> c,
              lastToken |-> lastToken]
        ELSE [tok |-> tok,
              cur |-> IF c.ch = "=" THEN c ELSE readChar(inp, c),
              lastToken |-> tok]

\* getNextToken: the returned token, the cursor and lastToken after the call
getNextToken(inp, cur, lastToken) ==
    LET c == skipWhitespace(inp, cur)
        tok == punctuation(c.ch)
    IN  IF isLetter(c.ch)
        THEN LET r == readIdent(inp, c)
                 keyword == Keywords(r.text)
                 t == IF keyword # undefined THEN keyword
                      ELSE createToken(TokenType.Ident, r.text)
             IN  [tok |-> t, cur |-> r.cur, lastToken |-> t]
        ELSE IF isNumber(c.ch)
        THEN LET r == readInt(inp, c)
                 t == createToken(IF afterQuote(lastToken) THEN TokenType.Ident
                                  ELSE TokenType.Int, r.text)
             IN  [tok |-> t, cur |-> r.cur, lastToken |-> t]
        ELSE IF tok = undefined
        THEN [tok |-> createToken(TokenType.Illegal, <<c.ch>>), cur |-> c,
              lastToken |-> lastToken]
        ELSE [tok |-> tok, cur |-> readChar(inp, c), lastToken |-> tok]

\* the fields of a Tokenizer after the field initialisers and the first
\* readChar() of the constructor; line is the constructor's accumulator and
\* status tells how the constructor's loop has ended, if it has
newTokenizer(inp) ==
    [ cur |-> readChar(inp, [ch |-> NUL, position |-> 0, readPosition |-> 0]),
      lastToken |-> createToken(TokenType.Illegal, str_Illegal),
      loc |-> 0, tokens |-> <<>>, lines |-> <<>>, line |-> <<>>,
      status |-> "running", thrown |-> undefined ]

\* the iteration, had it kept the terminator in the line it seals
constructorStep_keepsTerminator(inp, lx) ==
    LET r == getNextToken(inp, lx.cur, lx.lastToken)
        tok == r.tok
        moved == [lx EXCEPT !.cur = r.cur, !.lastToken = r.lastToken]
    IN  IF typeOf(tok) = TokenType.EoL
        THEN [moved EXCEPT !.lines = Append(lx.lines, Append(lx.line, tok)),
                           !.tokens = Append(lx.tokens, tok),
                           !.line = <<>>, !.loc = lx.loc + 1]
        ELSE IF typeOf(tok) = TokenType.Illegal
        THEN [moved EXCEPT !.status = "thrown",
                           !.thrown = [name |-> "Error", token |-> tok.literal,
                                       line |-> lx.loc]]
        ELSE IF typeOf(tok) = TokenType.Eof
        THEN [moved EXCEPT !.status = "done"]
        ELSE [moved EXCEPT !.line = Append(lx.line, tok),
                           !.tokens = Append(lx.tokens, tok)]

\* the iteration, had it sealed the accumulated tokens at end of input
constructorStep_sealsAtEof(inp, lx) ==
    LET r == getNextToken(inp, lx.cur, lx.lastToken)
        tok == r.tok
        moved == [lx EXCEPT !.cur = r.cur, !.lastToken = r.lastToken]
    IN  IF typeOf(tok) = TokenType.EoL
        THEN [moved EXCEPT !.lines = Append(lx.lines, lx.line),
                           !.line = <<>>, !.loc = lx.loc + 1]
        ELSE IF typeOf(tok) = TokenType.Illegal
        THEN [moved EXCEPT !.status = "thrown",
                           !.thrown = [name |-> "Error", token |-> tok.literal,
                                       line |-> lx.loc]]
        ELSE IF typeOf(tok) = TokenType.Eof
        THEN IF lx.line = <<>> THEN [moved EXCEPT !.status = "done"]
             ELSE [moved EXCEPT !.status = "done",
                                !.lines = Append(lx.lines, lx.line),
                                !.line = <<>>, !.loc = lx.loc + 1]
        ELSE [moved EXCEPT !.line = Append(lx.line, tok),
                           !.tokens = Append(lx.tokens, tok)]

\* one iteration of the constructor's while (true)
constructorStep(inp, lx) ==
    LET r == getNextToken(inp, lx.cur, lx.lastToken)
        tok == r.tok
        moved == [lx EXCEPT !.cur = r.cur, !.lastToken = r.lastToken]
    IN  IF typeOf(tok) = TokenType.EoL
        THEN [moved EXCEPT !.lines = Append(lx.lines, lx.line),
                           !.line = <<>>, !.loc = lx.loc + 1]
        ELSE IF typeOf(tok) = TokenType.Illegal
        THEN [moved EXCEPT !.status = "thrown",
                           !.thrown = [name |-> "Error", token |-> tok.literal,
                                       line |-> lx.loc]]
        ELSE IF typeOf(tok) = TokenType.Eof
        THEN [moved EXCEPT !.status = "done"]
        ELSE [moved EXCEPT !.line = Append(lx.line, tok),
                           !.tokens = Append(lx.tokens, tok)]

\* new Tokenizer(inp): the constructor run to its end
RECURSIVE constructorLoop(_, _)
constructorLoop(inp, lx) ==
    IF lx.status # "running" THEN lx
    ELSE constructorLoop(inp, constructorStep(inp, lx))

Tokenizer(inp) == constructorLoop(inp, newTokenizer(inp))

(***************************************************************************)
(* Interpreter helpers.                                                    *)
(***************************************************************************)
\* the for-of loop of find, from the k-th token of the line on
RECURSIVE findLoop(_, _, _, _, _, _)
findLoop(token, line, idx, k, i, tok) ==
    IF k > Len(line) THEN tok
    ELSE LET t == line[k]
         IN  IF typeOf(t) = token
             THEN IF i = idx THEN t
                  ELSE findLoop(token, line, idx, k + 1, i + 1, t)
             ELSE findLoop(token, line, idx, k + 1, i, tok)

find(token, line, idx) ==
    findLoop(token, line, idx, 1, 0, createToken(TokenType.Illegal, str_Illegal))

hasVariable(line, table) ==
    \E k \in DOMAIN line : literalOf(line[k]) \in DOMAIN table

\* variables.set, had it started a new table at every declaration
mapSet_fresh(table, key, record) ==
    [k \in {key} |-> record]

\* variables.set(key, record)
mapSet(table, key, record) ==
    [k \in DOMAIN table \cup {key} |-> IF k = key THEN record ELSE table[k]]

\* A Number that parseInt returns: NaN, Infinity, or a natural number that a
\* double holds exactly, kept as its decimal digits, most significant first
\* and without leading zeros.
NaN == <<-1>>
Infinity == <<-2>>

\* 2^53; a double holds 53 significant bits and its largest exponent leaves
\* (2^53 - 1) * 2^971 as the largest finite value
TwoTo53 == <<9, 0, 0, 7, 1, 9, 9, 2, 5, 4, 7, 4, 0, 9, 9, 2>>
MaxExponent == 971

digitValue(character) ==
    CHOOSE d \in 0..9 : DigitChars[d + 1] = character

\* the function f of domain 1..n as the sequence of its values
asSequence(f) == <<>> \o f

\* a without its leading zeros
normalize(a) ==
    IF \A k \in 1..Len(a) : a[k] = 0 THEN <<0>>
    ELSE LET first == CHOOSE k \in 1..Len(a) :
                          a[k] # 0 /\ \A j \in 1..(k - 1) : a[j] = 0
         IN  asSequence([i \in 1..(Len(a) - first + 1) |-> a[first + i - 1]])

less(a, b) ==
    IF Len(a) # Len(b) THEN Len(a) < Len(b)
    ELSE \E k \in 1..Len(a) : a[k] < b[k] /\ \A j \in 1..(k - 1) : a[j] = b[j]

\* a + 1: a digit is raised when every digit after it is a nine
increment(a) ==
    LET digits == asSequence([j \in 1..Len(a) |->
                      IF \A i \in (j + 1)..Len(a) : a[i] = 9 THEN (a[j] + 1) % 10 ELSE a[j]])
    IN  IF \A i \in 1..Len(a) : a[i] = 9 THEN <<1>> \o digits ELSE digits

\* a divided by two by long division: quotient q and remainder r; the
\* remainder carried into a digit is the parity of the digit before it
halve(a) ==
    [q |-> normalize(asSequence([k \in 1..Len(a) |->
                         ((IF k = 1 THEN 0 ELSE a[k - 1] % 2) * 10 + a[k]) \div 2])),
     r |-> a[Len(a)] % 2]

\* a times two: a digit of five or more carries one into the digit before it
timesTwo(a) ==
    LET digits == asSequence([k \in 1..Len(a) |->
                      (2 * a[k] + (IF k < Len(a) /\ a[k + 1] >= 5 THEN 1 ELSE 0)) % 10])
    IN  IF a[1] >= 5 THEN <<1>> \o digits ELSE digits

\* The two loops below run once per bit shifted; they are taken Stride steps
\* at a time so that their nesting stays shallow for exponents near 971.
Stride == 32

\* m * 2^k
RECURSIVE shiftSteps(_, _)
shiftSteps(m, k) ==
    IF k = 0 \/ m = <<0>> THEN m ELSE shiftSteps(timesTwo(m), k - 1)

\* m * 2^e
RECURSIVE shiftLeft(_, _)
shiftLeft(m, e) ==
    IF e <= Stride \/ m = <<0>> THEN shiftSteps(m, e)
    ELSE shiftLeft(shiftSteps(m, Stride), e - Stride)

\* v = m * 2^e + the bits shifted out: half is the last bit shifted out,
\* sticky tells whether a bit shifted out before it was set; h is m halved
shiftedOut(s, h) ==
    [m |-> h.q, e |-> s.e + 1, half |-> h.r = 1, sticky |-> s.sticky \/ s.half]

roundStep(s) == shiftedOut(s, halve(s.m))

RECURSIVE roundSteps(_, _)
roundSteps(s, k) ==
    IF k = 0 \/ less(s.m, TwoTo53) THEN s ELSE roundSteps(roundStep(s), k - 1)

\* shifts bits out of v until what is left is below 2^53
RECURSIVE roundLoop(_)
roundLoop(s) ==
    IF less(s.m, TwoTo53) THEN s ELSE roundLoop(roundSteps(s, Stride))

\* m * 2^e as a Number: Infinity from 2^1024 on
scaled(m, e) ==
    IF e > MaxExponent \/ (e = MaxExponent /\ m = TwoTo53) THEN Infinity
    ELSE shiftLeft(m, e)

\* the significand r.m rounded to nearest, ties to even, then scaled back
rounded(r) ==
    scaled(IF r.half /\ (r.sticky \/ r.m[Len(r.m)] % 2 = 1) THEN increment(r.m) ELSE r.m,
           r.e)

\* the double nearest to the natural number v, ties to the even significand
toDouble(v) ==
    rounded(roundLoop([m |-> v, e |-> 0, half |-> FALSE, sticky |-> FALSE]))

\* the digit values of the leading digit run of a string
leadingDigits(str) ==
    LET run == { k \in 1..Len(str) : \A j \in 1..k : isNumber(str[j]) }
    IN  asSequence([i \in 1..Cardinality(run) |-> digitValue(str[i])])

\* parseInt of a string: the Number nearest to the value of its leading digit
\* run, NaN without one
parseInt(str) ==
    IF Len(str) = 0 \/ ~isNumber(str[1]) THEN NaN
    ELSE toDouble(normalize(leadingDigits(str)))

\* a double is told from every other by 17 significant digits
MaxSignificantDigits == 17

\* the decimals of k significant digits next to n: n with the digits after its
\* k-th set to zero, and that with its k-th digit raised by one
below(n, k) == asSequence([i \in 1..Len(n) |-> IF i <= k THEN n[i] ELSE 0])
above(n, k) ==
    increment(asSequence([i \in 1..k |-> n[i]]))
        \o asSequence([i \in 1..(Len(n) - k) |-> 0])

\* the decimals of up to 17 significant digits next to n that convert back to
\* the Number n
fitting(n) ==
    { c \in UNION { { [k |-> k, decimal |-> below(n, k)],
                      [k |-> k, decimal |-> above(n, k)] } :
                    k \in 1..(IF Len(n) < MaxSignificantDigits
                              THEN Len(n) ELSE MaxSignificantDigits) } :
        toDouble(c.decimal) = n }

\* of the decimals lo below n and hi above it, of k significant digits: the
\* one that fits; when both do, the nearer to n and, at equal distance, the
\* one with the even last digit
nearest(n, fit, k, lo, hi) ==
    IF [k |-> k, decimal |-> hi] \notin fit THEN lo
    ELSE IF [k |-> k, decimal |-> lo] \notin fit THEN hi
    ELSE IF k = Len(n) \/ n[k + 1] < 5 THEN lo
    ELSE IF /\ n[k + 1] = 5
            /\ \A i \in (k + 2)..Len(n) : n[i] = 0
            /\ n[k] % 2 = 0 THEN lo
    ELSE hi

fewestDigits(fit) == CHOOSE k \in { c.k : c \in fit } : \A c \in fit : k <= c.k

nearestAt(n, fit, k) == nearest(n, fit, k, below(n, k), above(n, k))

fewest(n, fit) == nearestAt(n, fit, fewestDigits(fit))

\* the decimal with the fewest significant digits that converts back to the
\* Number n
shortest(n) == fewest(n, fitting(n))

\* c without its trailing zeros
significand(c) ==
    IF \A k \in 1..Len(c) : c[k] = 0 THEN <<0>>
    ELSE LET last == CHOOSE k \in 1..Len(c) :
                         c[k] # 0 /\ \A j \in (k + 1)..Len(c) : c[j] = 0
         IN  asSequence([i \in 1..last |-> c[i]])

digitText(a) == asSequence([i \in 1..Len(a) |-> DigitChars[a[i] + 1]])

RECURSIVE naturalDigits(_)
naturalDigits(x) ==
    IF x < 10 THEN <<x>> ELSE Append(naturalDigits(x \div 10), x % 10)

\* significand s and exponent e in exponent notation
exponentForm(s, e) ==
    <<DigitChars[s[1] + 1]>>
        \o (IF Len(s) > 1 THEN <<".">> \o digitText(Tail(s)) ELSE <<>>)
        \o <<"e", "+">>
        \o digitText(naturalDigits(e))

\* the text of the decimal c: its digits, exponent notation from 1e21 on
decimalText(c) ==
    IF Len(c) <= 21 THEN digitText(c) ELSE exponentForm(significand(c), Len(c) - 1)

\* the text a template literal interpolates for a number: its shortest decimal
numberToString(n) ==
    IF n = NaN THEN str_NaN
    ELSE IF n = Infinity THEN str_Infinity
    ELSE decimalText(shortest(n))

\* the command console.log(<number>) or console.log('<string>'), kept as the
\* kind of its argument and the text it writes when evaluated
numberCommand(value) == [kind |-> "number", text |-> numberToString(parseInt(value))]
stringCommand(value) == [kind |-> "string", text |-> value]

\* treeObj: the declared shape of a print statement
treeObj ==
    [ print |-> << TokenType.PrintKeyword, TokenType.ParentesesE, TokenType.SingleQuote,
                   TokenType.Ident, TokenType.SingleQuote, TokenType.ParentesesD,
                   TokenType.EoL >> ]

\* verifyTree: every token of the line has the kind the tree has at its
\* position (tree[index] is undefined past the end of the tree)
verifyTree(line, statement) ==
    IF statement \in DOMAIN treeObj
    THEN LET tree == treeObj[statement]
         IN  \A k \in DOMAIN line :
                typeOf(line[k]) = (IF k \in DOMAIN tree THEN tree[k] ELSE "undefined")
    ELSE FALSE

(***************************************************************************)
(* Interpreter: the body of the outer for loop, for one line.  st is       *)
(* [variables, commands, threw] and writes, the number of variables.set    *)
(* calls the loop has made.                                                *)
(***************************************************************************)
\* the print branch, had it been gated by the declared print shape
printBranch_shapeGated(line, st) ==
    IF ~(Len(line) = 6 /\ verifyTree(line, "print")) THEN st
    ELSE IF hasVariable(line, st.variables)
    THEN LET vKey == find(TokenType.Ident, line, 0).literal
         IN  IF vKey \notin DOMAIN st.variables
             THEN [st EXCEPT !.threw = TRUE]
             ELSE LET v == st.variables[vKey]
                  IN  IF v.type = "number"
                      THEN [st EXCEPT !.commands = Append(@, numberCommand(v.value))]
                      ELSE [st EXCEPT !.commands = Append(@, stringCommand(v.value))]
    ELSE [st EXCEPT !.commands =
              Append(@, stringCommand(find(TokenType.Ident, line, 0).literal))]

\* if (atual.type === TokenType.PrintKeyword) { ... break }
printBranch(line, st) ==
    IF hasVariable(line, st.variables)
    THEN LET vKey == find(TokenType.Ident, line, 0).literal
         IN  IF vKey \notin DOMAIN st.variables
             THEN [st EXCEPT !.threw = TRUE]
             ELSE LET v == st.variables[vKey]
                  IN  IF v.type = "number"
                      THEN [st EXCEPT !.commands = Append(@, numberCommand(v.value))]
                      ELSE [st EXCEPT !.commands = Append(@, stringCommand(v.value))]
    ELSE [st EXCEPT !.commands =
              Append(@, stringCommand(find(TokenType.Ident, line, 0).literal))]

\* the var branch, had it taken the key from the token after the first var
\* token of the line instead of from line position 1
variableBranch_keyAfterVar(line, st) ==
    LET single == find(TokenType.SingleQuote, line, 0)
        double == find(TokenType.DoubleQuote, line, 0)
        at == CHOOSE k \in DOMAIN line :
                  /\ typeOf(line[k]) = TokenType.Variable
                  /\ \A m \in 1..(k - 1) : typeOf(line[m]) # TokenType.Variable
    IN  IF Len(line) < at + 1
        THEN [st EXCEPT !.threw = TRUE]
        ELSE IF single.type # TokenType.Illegal \/ double.type # TokenType.Illegal
        THEN [st EXCEPT !.variables =
                            mapSet(@, literalOf(line[at + 1]),
                                   [type |-> "string", declaration |-> "var var",
                                    value |-> find(TokenType.Ident, line, 1).literal]),
                        !.writes = @ + 1]
        ELSE [st EXCEPT !.variables =
                            mapSet(@, literalOf(line[at + 1]),
                                   [type |-> "number",
                                    value |-> find(TokenType.Int, line, 0).literal,
                                    declaration |-> "var var"]),
                        !.writes = @ + 1]

\* if (atual.type === TokenType.Variable) { ... }
variableBranch(line, st) ==
    LET single == find(TokenType.SingleQuote, line, 0)
        double == find(TokenType.DoubleQuote, line, 0)
    IN  IF Len(line) < 2
        THEN [st EXCEPT !.threw = TRUE]
        ELSE IF single.type # TokenType.Illegal \/ double.type # TokenType.Illegal
        THEN [st EXCEPT !.variables =
                            mapSet(@, literalOf(line[2]),
                                   [type |-> "string", declaration |-> "var var",
                                    value |-> find(TokenType.Ident, line, 1).literal]),
                        !.writes = @ + 1]
        ELSE [st EXCEPT !.variables =
                            mapSet(@, literalOf(line[2]),
                                   [type |-> "number",
                                    value |-> find(TokenType.Int, line, 0).literal,
                                    declaration |-> "var var"]),
                        !.writes = @ + 1]

\* the inner loop, had the print branch no break
RECURSIVE innerLoop_noBreak(_, _, _)
innerLoop_noBreak(line, inner, st) ==
    IF inner >= Len(line) THEN st
    ELSE LET atual == line[inner + 1]
         IN  IF typeOf(atual) = TokenType.PrintKeyword \/ typeOf(atual) = TokenType.Variable
             THEN LET after == IF typeOf(atual) = TokenType.PrintKeyword
                               THEN printBranch(line, st)
                               ELSE variableBranch(line, st)
                  IN  IF after.threw THEN after
                      ELSE innerLoop_noBreak(line, inner + 1, after)
             ELSE innerLoop_noBreak(line, inner + 1, st)

\* for (let inner = 0; inner < line.length; inner++) { ... }
RECURSIVE innerLoop(_, _, _)
innerLoop(line, inner, st) ==
    IF inner >= Len(line) THEN st
    ELSE LET atual == line[inner + 1]
         IN  IF typeOf(atual) = TokenType.PrintKeyword
             THEN printBranch(line, st)
             ELSE IF typeOf(atual) = TokenType.Variable
             THEN LET after == variableBranch(line, st)
                  IN  IF after.threw THEN after
                      ELSE innerLoop(line, inner + 1, after)
             ELSE innerLoop(line, inner + 1, st)

execLine(line, table) ==
    innerLoop(line, 0, [variables |-> table, commands |-> <<>>, threw |-> FALSE,
                        writes |-> 0])

\* the commands, had their joined text been logged instead of evaluated: a
\* line without a command writes an empty line
evalCommands_logged(commands, idx) ==
    IF commands = <<>>
    THEN << [line |-> idx, kind |-> "string", text |-> <<>>] >>
    ELSE [k \in DOMAIN commands |->
             [line |-> idx, kind |-> commands[k].kind, text |-> commands[k].text]]

\* eval(commands.join()): each command writes its text, in order
evalCommands(commands, idx) ==
    [k \in DOMAIN commands |->
        [line |-> idx, kind |-> commands[k].kind, text |-> commands[k].text]]

emptyMap == [k \in {} |-> undefined]

\* interpreter(tokenizer) run to its end on the given lines
RECURSIVE interpreterLoop(_, _, _, _)
interpreterLoop(lines, idx, table, written) ==
    IF idx >= Len(lines)
    THEN [variables |-> table, out |-> written, threw |-> FALSE]
    ELSE LET r == execLine(lines[idx + 1], table)
         IN  IF r.threw
             THEN [variables |-> r.variables, out |-> written, threw |-> TRUE]
             ELSE interpreterLoop(lines, idx + 1, r.variables,
                                  written \o evalCommands(r.commands, idx))

interpreter(lines) == interpreterLoop(lines, 0, emptyMap, <<>>)

(***************************************************************************)
(* The program.                                                            *)
(***************************************************************************)
Init ==
    /\ input \in Inputs
    /\ lexer = newTokenizer(input)
    /\ pc = "Tokenizer"
    /\ error = undefined
    /\ dumped = FALSE
    /\ index = 0
    /\ variables = emptyMap
    /\ out = <<>>
    /\ effects = <<>>

\* one iteration of the loop of new Tokenizer(input)
TokenizerStep ==
    /\ pc = "Tokenizer"
    /\ lexer' = constructorStep(input, lexer)
    /\ pc' = IF lexer'.status = "thrown" THEN "thrown"
             ELSE IF lexer'.status = "done" THEN "main"
             ELSE "Tokenizer"
    /\ error' = lexer'.thrown
    /\ UNCHANGED <<input, dumped, index, variables, out, effects>>

\* console.log('lines'); console.log(lexer.lines); interpreter(lexer) up to
\* the head of its for loop
Main ==
    /\ pc = "main"
    /\ dumped' = TRUE
    /\ variables' = emptyMap
    /\ index' = 0
    /\ pc' = "interpreter"
    /\ UNCHANGED <<input, lexer, error, out, effects>>

\* one iteration of the interpreter's outer for loop
InterpretLine ==
    /\ pc = "interpreter"
    /\ index < Len(lexer.lines)
    /\ LET r == execLine(lexer.lines[index + 1], variables)
       IN  /\ variables' = r.variables
           /\ effects' = Append(effects, [writes |-> r.writes,
                                          commands |-> Len(r.commands),
                                          threw |-> r.threw])
           /\ IF r.threw
              THEN /\ pc' = "thrown"
                   /\ error' = [name |-> "TypeError"]
                   /\ UNCHANGED <<out, index>>
              ELSE /\ out' = out \o evalCommands(r.commands, index)
                   /\ index' = index + 1
                   /\ UNCHANGED <<pc, error>>
    /\ UNCHANGED <<input, lexer, dumped>>

\* the outer for loop ends
InterpreterReturn ==
    /\ pc = "interpreter"
    /\ index >= Len(lexer.lines)
    /\ pc' = "exit"
    /\ UNCHANGED <<input, lexer, error, dumped, index, variables, out, effects>>

Next == TokenizerStep \/ Main \/ InterpretLine \/ InterpreterReturn

Spec == Init /\ [][Next]_vars

\* The same program from the moment before input.txt is read: readFileSync
\* picks the script, then the run proceeds as above.  The program is
\* single-threaded and runs to its end, so a step that can be taken is taken.
StartInit ==
    /\ pc = "start"
    /\ input = <<>>
    /\ lexer = newTokenizer(<<>>)
    /\ error = undefined
    /\ dumped = FALSE
    /\ index = 0
    /\ variables = emptyMap
    /\ out = <<>>
    /\ effects = <<>>

\* const input = readFileSync(...); new Tokenizer(input) up to its loop
ReadInput ==
    /\ pc = "start"
    /\ input' \in Inputs
    /\ lexer' = newTokenizer(input')
    /\ pc' = "Tokenizer"
    /\ UNCHANGED <<error, dumped, index, variables, out, effects>>

StartNext == ReadInput \/ TokenizerStep \/ Main \/ InterpretLine \/ InterpreterReturn

\* An iteration of the constructor's loop can be taken exactly while the loop
\* runs, and it always changes the tokenizer (the cursor moves or the loop
\* stops).
TokenizerStepEnabled ==
    pc = "Tokenizer" => constructorStep(input, lexer) # lexer

\* Weak fairness of the loop iteration, WF_vars(TokenizerStep), with
\* ENABLED <<TokenizerStep>>_vars written as the guard pc = "Tokenizer" it is
\* equal to by TokenizerStepEnabled.
TokenizerFairness ==
    []<>(pc # "Tokenizer") \/ []<><<TokenizerStep>>_vars

FairSpec ==
    /\ StartInit
    /\ [][StartNext]_vars
    /\ WF_vars(ReadInput)
    /\ TokenizerFairness

(***************************************************************************)
(* Vocabulary of the properties.                                           *)
(***************************************************************************)
Lines == lexer.lines

\* the interpreter has been entered (the Tokenizer returned normally)
Interpreting == pc = "interpreter" \/ pc = "exit" \/ (pc = "thrown" /\ dumped)

\* the number of lines the outer loop has started on
Attempted == Len(effects)

\* a token lexed from a run of letters that is neither print nor var, and
\* the run it was lexed from
isName(t) == typeOf(t) = TokenType.Ident \/ "inherited" \in DOMAIN t
lexemeOf(t) == IF "inherited" \in DOMAIN t THEN t.inherited ELSE t.literal

isQuote(t) == typeOf(t) = TokenType.SingleQuote \/ typeOf(t) = TokenType.DoubleQuote
hasKind(line, kind) == \E k \in DOMAIN line : typeOf(line[k]) = kind

isDigitRun(str) == Len(str) > 0 /\ \A k \in DOMAIN str : isNumber(str[k])
isLetterRun(str) == Len(str) > 0 /\ \A k \in DOMAIN str : isLetter(str[k])

\* the line  var n = d
isNumberDeclaration(line) ==
    /\ Len(line) = 4
    /\ typeOf(line[1]) = TokenType.Variable
    /\ isName(line[2])
    /\ typeOf(line[3]) = TokenType.AssignOrEqual
    /\ typeOf(line[4]) = TokenType.Int

\* the line  var n = 's'  with s one run of letters or of digits
isStringDeclaration(line) ==
    /\ Len(line) = 6
    /\ typeOf(line[1]) = TokenType.Variable
    /\ isName(line[2])
    /\ typeOf(line[3]) = TokenType.AssignOrEqual
    /\ isQuote(line[4])
    /\ isLetterRun(lexemeOf(line[5])) \/ isDigitRun(lexemeOf(line[5]))
    /\ isQuote(line[6])

\* the line  print(n)
isPrintOfName(line) ==
    /\ Len(line) = 4
    /\ typeOf(line[1]) = TokenType.PrintKeyword
    /\ typeOf(line[2]) = TokenType.ParentesesE
    /\ isName(line[3])
    /\ typeOf(line[4]) = TokenType.ParentesesD

\* the line  print('L')
isPrintOfLiteral(line) ==
    /\ Len(line) = 6
    /\ typeOf(line[1]) = TokenType.PrintKeyword
    /\ typeOf(line[2]) = TokenType.ParentesesE
    /\ isQuote(line[3])
    /\ isLetterRun(lexemeOf(line[4])) \/ isDigitRun(lexemeOf(line[4]))
    /\ isQuote(line[5])
    /\ typeOf(line[6]) = TokenType.ParentesesD

\* a var line that names n
declaresName(line, n) ==
    /\ hasKind(line, TokenType.Variable)
    /\ Len(line) >= 2
    /\ lexemeOf(line[2]) = n

\* i is the last line before j that declares n
lastDeclaration(i, j, n) ==
    /\ i < j
    /\ declaresName(Lines[i], n)
    /\ \A m \in (i + 1)..(j - 1) : ~declaresName(Lines[m], n)

\* a digit run without its leading zeros
RECURSIVE stripZeros(_)
stripZeros(d) ==
    IF Len(d) > 1 /\ d[1] = "0" THEN stripZeros(Tail(d)) ELSE d

\* what line j (1-based) has written to the output
outputOf(j) == SelectSeq(out, LAMBDA e : e.line = j - 1)

\* line j (1-based) ran without an error and wrote exactly this one entry
printed(j, kind, text) ==
    /\ ~effects[j].threw
    /\ outputOf(j) = << [line |-> j - 1, kind |-> kind, text |-> text] >>

(***************************************************************************)
(* C1..C5                                                                  *)
(***************************************************************************)
\* C1: when a line `var n = d` is followed later by a line `print(n)` with no
\* declaration of n in between, the print line, once the interpreter reaches
\* it, writes the integer value of d in decimal and raises no lookup error.
C1_NumberThenPrint ==
    Interpreting =>
        \A j \in 1..Attempted : \A i \in 1..(j - 1) :
            ( /\ isNumberDeclaration(Lines[i])
              /\ isPrintOfName(Lines[j])
              /\ lexemeOf(Lines[j][3]) = lexemeOf(Lines[i][2])
              /\ lastDeclaration(i, j, lexemeOf(Lines[i][2])) )
            => printed(j, "number", stripZeros(Lines[i][4].literal))

\* C2: when a line `var n = 's'` is followed later by a line `print(n)` with
\* no declaration of n in between, the print line, once the interpreter
\* reaches it, writes exactly s as a string and raises no lookup error.
C2_StringThenPrint ==
    Interpreting =>
        \A j \in 1..Attempted : \A i \in 1..(j - 1) :
            ( /\ isStringDeclaration(Lines[i])
              /\ isPrintOfName(Lines[j])
              /\ lexemeOf(Lines[j][3]) = lexemeOf(Lines[i][2])
              /\ lastDeclaration(i, j, lexemeOf(Lines[i][2])) )
            => printed(j, "string", lexemeOf(Lines[i][5]))

\* C3: a line `print(name)` writes the value, with the type, of the most
\* recent declaration of name that precedes it (a `var name = d` or a
\* `var name = 's'` line), also when name was declared before that, and a
\* declaration line raises no error.
C3_Redeclaration ==
    Interpreting =>
        \A j \in 1..Attempted :
            /\ (isNumberDeclaration(Lines[j]) \/ isStringDeclaration(Lines[j]))
                   => ~effects[j].threw
            /\ \A i \in 1..(j - 1) :
                 ( /\ isPrintOfName(Lines[j])
                   /\ lastDeclaration(i, j, lexemeOf(Lines[j][3]))
                   /\ \E h \in 1..(i - 1) : declaresName(Lines[h], lexemeOf(Lines[j][3])) )
                 => /\ isNumberDeclaration(Lines[i])
                        => printed(j, "number", stripZeros(Lines[i][4].literal))
                    /\ isStringDeclaration(Lines[i])
                        => printed(j, "string", lexemeOf(Lines[i][5]))

\* C4: in every state the interpreter reaches in which the table has no
\* variable named L, executing a line `print('L')` writes the text L, as a
\* string, and raises no error.
C4_LiteralPrint ==
    (pc = "interpreter" /\ index < Len(Lines)) =>
        LET line == Lines[index + 1]
            r == execLine(line, variables)
        IN  (isPrintOfLiteral(line) /\ lexemeOf(line[4]) \notin DOMAIN variables)
            => /\ ~r.threw
               /\ r.variables = variables
               /\ r.commands = << stringCommand(lexemeOf(line[4])) >>

\* a character the lexer has no rule for
isWhitespace(c) == c = " " \/ c = "\t" \/ c = "\n" \/ c = "\r"
isPunctuation(c) == c \in {"(", ")", "!", "'", "\"", "="}
isIllegalChar(c) == ~isWhitespace(c) /\ ~isPunctuation(c) /\ ~isLetter(c) /\ ~isNumber(c)

illegalPositions(inp) == { k \in DOMAIN inp : isIllegalChar(inp[k]) }
firstIllegal(inp) == CHOOSE k \in illegalPositions(inp) : \A m \in illegalPositions(inp) : k <= m
terminatorsBefore(inp, k) == Cardinality({ m \in 1..(k - 1) : inp[m] = "!" })

\* C5: an input that contains a character the lexer has no rule for aborts
\* with an error carrying that character and the number of terminators before
\* it; the interpreter is never entered: nothing is written and no variable
\* is declared.
C5_IllegalIsFatal ==
    illegalPositions(input) # {} =>
        /\ pc \in {"Tokenizer", "thrown"}
        /\ out = <<>> /\ ~dumped /\ variables = emptyMap
        /\ pc = "thrown" =>
              error = [name |-> "Error", token |-> <<input[firstIllegal(input)]>>,
                       line |-> terminatorsBefore(input, firstIllegal(input))]

(***************************************************************************)
(* C6..C10                                                                 *)
(***************************************************************************)
\* the input cut after its last '!' (empty when it has none)
terminatorPositions(inp) == { k \in DOMAIN inp : inp[k] = "!" }
truncated(inp) ==
    IF terminatorPositions(inp) = {} THEN <<>>
    ELSE SubSeq(inp, 1, CHOOSE k \in terminatorPositions(inp) :
                            \A m \in terminatorPositions(inp) : m <= k)

\* the run is over: the interpreter returned, or an exception ended it
Ended == pc = "exit" \/ pc = "thrown"

\* C6: when the input lexes without an Illegal token, what follows the last
\* '!' is sealed into no line, and the run ends as the run of the input cut
\* after its last '!' ends: the same lines, the same output, the same
\* variable table, and an error only where the cut input raises it too.
C6_TrailingStatementDiscarded ==
    (Ended /\ lexer.status = "done") =>
        LET cut == Tokenizer(truncated(input))
            run == interpreter(cut.lines)
        IN  /\ cut.status = "done"
            /\ Lines = cut.lines
            /\ Len(Lines) = lexer.loc
            /\ out = run.out
            /\ variables = run.variables
            /\ (pc = "thrown") = run.threw

\* an unterminated print statement at the end of a script that has printed
C6_Witness ==
    /\ pc = "exit"
    /\ hasKind(lexer.line, TokenType.PrintKeyword)
    /\ out # <<>>
    /\ variables # emptyMap

\* the lines sealed so far and the line being accumulated
AllLines == { Lines[k] : k \in DOMAIN Lines } \cup { lexer.line }

\* C7: a digit run is an Identifier token exactly when the token emitted just
\* before it is a SingleQuote or a DoubleQuote, and an Integer token in every
\* other case (at the start of a line the token before it is a '!' or none).
C7_QuoteLookback ==
    \A line \in AllLines : \A k \in DOMAIN line :
        isDigitRun(literalOf(line[k])) =>
            LET quoted == k > 1 /\ isQuote(line[k - 1])
            IN  /\ typeOf(line[k]) \in {TokenType.Ident, TokenType.Int}
                /\ (typeOf(line[k]) = TokenType.Ident) <=> quoted
                /\ (typeOf(line[k]) = TokenType.Int) <=> ~quoted

\* a sealed line holds a digit run after a double quote and one after a
\* token that is no quote
C7_Witness ==
    \E i \in DOMAIN Lines :
        /\ \E k \in 2..Len(Lines[i]) :
              /\ typeOf(Lines[i][k - 1]) = TokenType.DoubleQuote
              /\ Lines[i][k] = createToken(TokenType.Ident, <<"1", "2">>)
        /\ \E k \in 2..Len(Lines[i]) :
              /\ ~isQuote(Lines[i][k - 1])
              /\ typeOf(Lines[i][k]) = TokenType.Int

\* the 0-based indices, in order, of the first n lines that hold a print token
printLines(n) ==
    SelectSeq([k \in 1..n |-> k - 1],
              LAMBDA i : hasKind(Lines[i + 1], TokenType.PrintKeyword))

\* C8: the output has exactly one entry for each executed line that holds a
\* PrintKeyword token, in line order, and none for any other line.
C8_OneOutputPerPrintLine ==
    (pc = "interpreter" \/ pc = "exit") =>
        [k \in DOMAIN out |-> out[k].line] = printLines(index)

\* a finished run in which two lines have printed and another line has not
C8_Witness ==
    /\ pc = "exit"
    /\ Len(out) = 2
    /\ Len(Lines) = 3
    /\ \E i \in DOMAIN Lines : ~hasKind(Lines[i], TokenType.PrintKeyword)

\* the line has the declared print shape
matchesPrintShape(line) == Len(line) = 6 /\ verifyTree(line, "print")

shapedPrintLines ==
    { i \in DOMAIN Lines : hasKind(Lines[i], TokenType.PrintKeyword) /\ matchesPrintShape(Lines[i]) }

\* C9 (as stated): a print line that does not match the declared shape is
\* ignored: a finished run has written as many lines as it has print lines of
\* the declared shape.
C9_ShapeGatedOutput ==
    pc = "exit" => Len(out) = Cardinality(shapedPrintLines)

\* C9 (amended): the declared shape gates nothing: a finished run has written
\* as many lines as it has lines holding a PrintKeyword token, whatever their
\* shape, so at least as many as it has print lines of the declared shape.
C9_OutputNotShapeGated ==
    pc = "exit" =>
        /\ Len(out) = Cardinality({ i \in DOMAIN Lines : hasKind(Lines[i], TokenType.PrintKeyword) })
        /\ \A i \in DOMAIN Lines :
              (hasKind(Lines[i], TokenType.PrintKeyword) /\ ~matchesPrintShape(Lines[i]))
                  => Len(outputOf(i)) = 1

\* a finished run that has written for a print line of another shape
C9_Witness ==
    /\ pc = "exit"
    /\ \E i \in DOMAIN Lines :
          /\ hasKind(Lines[i], TokenType.PrintKeyword)
          /\ ~matchesPrintShape(Lines[i])
          /\ Len(outputOf(i)) = 1
    /\ \E i \in DOMAIN Lines : i \in shapedPrintLines

\* C10: a line executes at most one action: it never both writes the table
\* and prints, never writes the table twice, and never prints twice.
C10_OneActionPerLine ==
    \A j \in DOMAIN effects :
        /\ effects[j].writes + effects[j].commands <= 1
        /\ ~(effects[j].writes > 0 /\ effects[j].commands > 0)
        /\ effects[j].writes <= 1

(***************************************************************************)
(* C11..C14                                                                *)
(***************************************************************************)
\* C11: a line `print(x)` processed when no earlier line has declared x
\* fails in the lookup and writes nothing, also when a later line declares x.
C11_NoForwardReference ==
    Interpreting =>
        \A j \in 1..Attempted :
            ( /\ isPrintOfName(Lines[j])
              /\ \A i \in 1..(j - 1) : ~declaresName(Lines[i], lexemeOf(Lines[j][3])) )
            => /\ effects[j].threw
               /\ effects[j].commands = 0

\* the line the interpreter is about to execute takes the variable-reference
\* path at its print token and the key it looks up is not in the table
lookupMisses ==
    /\ pc = "interpreter"
    /\ index < Len(Lines)
    /\ LET line == Lines[index + 1]
       IN  /\ Len(line) > 0
           /\ typeOf(line[1]) = TokenType.PrintKeyword
           /\ hasVariable(line, variables)
           /\ find(TokenType.Ident, line, 0).literal \notin DOMAIN variables

\* C12: a print line that takes the variable-reference path and looks up a
\* key the table does not have fails with a dedicated undefined-variable
\* error, not with the error of an unchecked retrieval, and writes nothing.
C12_CheckedLookup ==
    [][ lookupMisses =>
            /\ pc' = "thrown"
            /\ error'.name = "UndefinedVariableError"
            /\ out' = out ]_vars

\* the var tokens of a line that the inner loop reaches (those before the
\* first print token)
reachedVarTokens(line) ==
    { k \in DOMAIN line :
        /\ typeOf(line[k]) = TokenType.Variable
        /\ \A m \in 1..(k - 1) : typeOf(line[m]) # TokenType.PrintKeyword }

\* the table after the line differs from the table before it at key only
writesOnly(before, after, key) ==
    /\ key \in DOMAIN after
    /\ \A k \in DOMAIN after \ {key} : k \in DOMAIN before /\ after[k] = before[k]
    /\ \A k \in DOMAIN before : k \in DOMAIN after

\* C13 (as stated): a line on which a declaration executes writes the key
\* that is the literal of the token at line position 1 and no other key, and
\* that token is the one that follows the var token that triggered the
\* declaration.
C13_KeyFollowsVar ==
    (pc = "interpreter" /\ index < Len(Lines)) =>
        LET line == Lines[index + 1]
            r == execLine(line, variables)
        IN  r.writes > 0 =>
                /\ writesOnly(variables, r.variables, literalOf(line[2]))
                /\ \A k \in reachedVarTokens(line) : k + 1 = 2

\* C13 (amended): a line on which a declaration executes writes the key that
\* is the literal of the token at line position 1 (undefined when that token
\* has no literal), whatever the kind of that token, and no other key; that
\* token follows the triggering var token only when the var token is the
\* first token of the line.
C13_KeyIsPositional ==
    (pc = "interpreter" /\ index < Len(Lines)) =>
        LET line == Lines[index + 1]
            r == execLine(line, variables)
        IN  /\ r.writes > 0 =>
                /\ Len(line) >= 2
                /\ writesOnly(variables, r.variables, literalOf(line[2]))
                /\ r.variables[literalOf(line[2])].declaration = "var var"
            /\ (reachedVarTokens(line) # {} /\ Len(line) >= 2) => r.writes > 0

\* a declaration is about to execute whose var token is not the first token
\* of its line, and the key it will write is the var keyword's own text
C13_Witness ==
    /\ pc = "interpreter"
    /\ index < Len(Lines)
    /\ LET line == Lines[index + 1]
       IN  /\ Len(line) >= 3
           /\ typeOf(line[1]) # TokenType.Variable
           /\ typeOf(line[2]) = TokenType.Variable
           /\ reachedVarTokens(line) = {2}
           /\ execLine(line, variables).writes = 1
           /\ str_var \notin DOMAIN variables

\* the Identifier tokens and the Integer tokens of a line, in order
tokensOfKind(line, kind) == SelectSeq(line, LAMBDA t : typeOf(t) = kind)

\* C14: a var line stores type string exactly when it holds a quote token,
\* with the literal of its second Identifier token as the value; otherwise it
\* stores type number with the literal of its first Integer token.
C14_TypeAndValue ==
    (pc = "interpreter" /\ index < Len(Lines)) =>
        LET line == Lines[index + 1]
            r == execLine(line, variables)
            quoted == hasKind(line, TokenType.SingleQuote)
                          \/ hasKind(line, TokenType.DoubleQuote)
            idents == tokensOfKind(line, TokenType.Ident)
            ints == tokensOfKind(line, TokenType.Int)
        IN  r.writes > 0 =>
                LET stored == r.variables[literalOf(line[2])]
                IN  /\ (stored.type = "string") <=> quoted
                    /\ quoted => /\ Len(idents) >= 2
                                 /\ stored.value = idents[2].literal
                    /\ ~quoted => /\ stored.type = "number"
                                  /\ Len(ints) >= 1
                                  /\ stored.value = ints[1].literal

(***************************************************************************)
(* C15..C20                                                                *)
(***************************************************************************)
\* the maximal run of letters of inp that ends at its p-th character
RECURSIVE letterRunStart(_, _)
letterRunStart(inp, p) ==
    IF p > 1 /\ isLetter(inp[p - 1]) THEN letterRunStart(inp, p - 1) ELSE p

letterRunEndingAt(inp, p) == SubSeq(inp, letterRunStart(inp, p), p)

\* the token the keyword table assigns to a run of letters
tokenOfRun(run) ==
    IF run = str_print THEN createToken(TokenType.PrintKeyword, str_print)
    ELSE IF run = str_var THEN createToken(TokenType.Variable, str_var)
    ELSE createToken(TokenType.Ident, run)

\* the tokenizer has just consumed a run of letters
afterLetterRun ==
    /\ lexer.cur.position >= 1
    /\ lexer.cur.position <= Len(input)
    /\ isLetter(input[lexer.cur.position])

\* C15: a maximal run of letters lexes to one token: the print keyword for
\* print, the var keyword for var, and for any other run, names of built-in
\* object properties included, an Identifier whose literal is the run.
C15_KeywordOrIdentifier ==
    afterLetterRun =>
        /\ lexer.lastToken = tokenOfRun(letterRunEndingAt(input, lexer.cur.position))
        /\ Len(lexer.tokens) > 0
        /\ lexer.tokens[Len(lexer.tokens)] = lexer.lastToken

\* C16: executing a line that holds neither a var nor a print token writes
\* nothing, raises no error and leaves the variable table as it was.
C16_UnrecognizedLineSkipped ==
    [][ ( /\ pc = "interpreter"
          /\ index < Len(Lines)
          /\ ~hasKind(Lines[index + 1], TokenType.Variable)
          /\ ~hasKind(Lines[index + 1], TokenType.PrintKeyword) )
        => /\ out' = out
           /\ variables' = variables
           /\ pc' = "interpreter"
           /\ error' = error
           /\ index' = index + 1 ]_vars

\* a finished run that has skipped the empty line of a doubled terminator
\* while its table held a variable
C16_Witness ==
    /\ pc = "exit"
    /\ variables # emptyMap
    /\ \E j \in DOMAIN Lines :
          /\ j > 1
          /\ Lines[j] = <<>>
          /\ hasKind(Lines[j - 1], TokenType.Variable)

RECURSIVE concatLines(_)
concatLines(lines) ==
    IF lines = <<>> THEN <<>> ELSE Head(lines) \o concatLines(Tail(lines))

\* the number of '!' among the characters the cursor has gone past
terminatorsLexed ==
    Cardinality({ k \in DOMAIN input : k <= lexer.cur.position /\ input[k] = "!" })

notDelimiter(t) ==
    typeOf(t) \notin {TokenType.EoL, TokenType.Illegal, TokenType.Eof}

\* C17: in every state of the tokenizing loop no sealed line and no entry of
\* the flat token list is a StatementEnd, Illegal or EndOfInput token; loc is
\* the number of sealed lines and the number of '!' lexed so far; the sealed
\* lines followed by the accumulator are the flat token list.
C17_LineGrouping ==
    /\ \A k \in DOMAIN lexer.tokens : notDelimiter(lexer.tokens[k])
    /\ \A i \in DOMAIN Lines : \A k \in DOMAIN Lines[i] : notDelimiter(Lines[i][k])
    /\ lexer.loc = Len(Lines)
    /\ lexer.loc = terminatorsLexed
    /\ concatLines(Lines) \o lexer.line = lexer.tokens

\* the loop is running with two sealed lines, one of them not empty, and
\* tokens in the accumulator
C17_Witness ==
    /\ pc = "Tokenizer"
    /\ Len(Lines) = 2
    /\ Lines[1] # <<>>
    /\ lexer.line # <<>>

\* C18: the tokenizing loop stops, on EndOfInput or on an Illegal token: a
\* call of getNextToken that returns another token moves the read cursor
\* forward; with the cursor past the end of the text the call returns
\* EndOfInput; EndOfInput is in no line.
C18_LexerTerminates ==
    /\ <>(lexer.status = "done" \/ lexer.status = "thrown")
    /\ [][ (pc = "Tokenizer" /\ lexer'.status = "running")
               => lexer'.cur.readPosition > lexer.cur.readPosition ]_vars
    /\ [](lexer.cur.position >= Len(input)
              => getNextToken(input, lexer.cur, lexer.lastToken).tok
                     = createToken(TokenType.Eof, str_eof))
    /\ [](\A line \in AllLines : ~hasKind(line, TokenType.Eof))

\* the loop has stopped on EndOfInput after sealing a line and with tokens
\* left in the accumulator
C18_Witness ==
    /\ lexer.status = "done"
    /\ Len(Lines) >= 1
    /\ Len(lexer.tokens) >= 5
    /\ lexer.line # <<>>
    /\ lexer.cur.position > Len(input)

\* the literals of the tokens returned so far, terminators included
RECURSIVE literalsOf(_)
literalsOf(line) ==
    IF line = <<>> THEN <<>> ELSE literalOf(Head(line)) \o literalsOf(Tail(line))

RECURSIVE sealedLiterals(_)
sealedLiterals(lines) ==
    IF lines = <<>> THEN <<>>
    ELSE literalsOf(Head(lines)) \o <<"!">> \o sealedLiterals(Tail(lines))

withoutWhitespace(inp) == SelectSeq(inp, LAMBDA c : ~isWhitespace(c))

\* C19: when the input has lexed without an Illegal token, the literals of
\* the tokens returned before EndOfInput, in order, are the input without its
\* whitespace characters.
C19_LosslessTokenization ==
    lexer.status = "done" =>
        sealedLiterals(Lines) \o literalsOf(lexer.line) = withoutWhitespace(input)

\* C20: the table starts empty, no step removes a key, and executing a line
\* without a var token leaves every entry as it was.
C20_TableLifetime ==
    /\ [](pc \in {"Tokenizer", "main"} => variables = emptyMap)
    /\ [][ /\ DOMAIN variables \subseteq DOMAIN variables'
           /\ ( /\ pc = "interpreter"
                /\ index < Len(Lines)
                /\ ~hasKind(Lines[index + 1], TokenType.Variable) )
              => variables' = variables ]_vars

\* a finished run that has printed from a table of two variables
C20_Witness ==
    /\ pc = "exit"
    /\ Cardinality(DOMAIN variables) = 2
    /\ out # <<>>
    /\ \E j \in DOMAIN Lines :
          hasKind(Lines[j], TokenType.PrintKeyword) /\ ~hasKind(Lines[j], TokenType.Variable)

====
